---- MODULE Spec2Model ----
(***************************************************************************)
(* Disaster-assessment backend (src/backend/main.py): the asynchronous     *)
(* comparison job lifecycle (analyze_images, process_analysis_job,         *)
(* update_job_status, the status/result/delete endpoints) together with    *)
(* the change-detection pipeline (compare_images and its classifiers),     *)
(* and the analysis store of the chatbot's analysis API                    *)
(* (src/backend/chatbot/analysis_api.py).                                  *)
(*                                                                         *)
(* Images are abstracted at the level of what the OpenCV primitives        *)
(* return for them (decoded or None, shape, contours with bounding boxes   *)
(* and areas, per-crop statistics); everything the Python code computes    *)
(* from those values is computed here the same way.                        *)
(* Floats that are whole numbers in the code (progress 5.0 .. 100.0) are   *)
(* integers here.  Timestamps (created_at, updated_at) are left out.       *)
(***************************************************************************)
EXTENDS Integers, Sequences, FiniteSets, TLC

\* Number of comparison ids (uuid4 values) issued in one behaviour.
MaxComparisons == 2

ComparisonIds == 1..MaxComparisons

None == "None"
NoMessage == <<>>

Levels == {"basic", "standard", "detailed"}

(***************************************************************************)
(* UPLOAD_DIR: the files present, and what cv2.imread returns for each.    *)
(* "corrupt.jpg" has an allowed extension but is no raster: imread gives   *)
(* None for it.  "ghost.jpg" was never uploaded.                           *)
(***************************************************************************)
Uploads == {"pre.jpg", "post.jpg", "corrupt.jpg"}

exists(image_id) == image_id \in Uploads

Shape(image_id) ==
    CASE image_id = "pre.jpg"  -> <<300, 400, 3>>
      [] image_id = "post.jpg" -> <<600, 800, 3>>

imread(image_id) ==
    IF image_id \in {"pre.jpg", "post.jpg"} THEN image_id ELSE None

\* The request bodies and query flags the model submits.
Requests ==
    {[before_image_id |-> "pre.jpg", after_image_id |-> "post.jpg", disaster_type |-> None,
      analysis_level |-> l, async_mode |-> a] : l \in Levels, a \in BOOLEAN}
    \cup
    {[before_image_id |-> b, after_image_id |-> a, disaster_type |-> None,
      analysis_level |-> "standard", async_mode |-> TRUE] :
        <<b, a>> \in {<<"pre.jpg", "pre.jpg">>, <<"corrupt.jpg", "post.jpg">>,
                      <<"ghost.jpg", "post.jpg">>, <<"pre.jpg", "ghost.jpg">>}}
    \cup
    {[before_image_id |-> "pre.jpg", after_image_id |-> "post.jpg", disaster_type |-> "fire",
      analysis_level |-> "standard", async_mode |-> TRUE]}

(***************************************************************************)
(* What the OpenCV primitives return for the stored images.                *)
(***************************************************************************)

\* cv2.findContours on the dilated difference mask: for each contour its
\* cv2.boundingRect <<x, y, w, h>>, its cv2.contourArea, the mean of
\* cv2.absdiff over the two crops, the changes of the channel means between
\* the crops and the correlation of their hue/saturation histograms (in
\* hundredths).  Identical images have an empty mask.
Contours(before_img, after_img) ==
    IF before_img = after_img THEN <<>>
    ELSE << [rect |-> <<50, 50, 200, 200>>,  area |-> 39601, mean_diff |-> 110,
             blue_increase |-> 45, red_increase |-> 35, green_decrease |-> 5,
             correlation |-> 20],
            [rect |-> <<300, 20, 9, 9>>,     area |-> 64,    mean_diff |-> 35,
             blue_increase |-> 0, red_increase |-> 0, green_decrease |-> 0,
             correlation |-> 90],
            [rect |-> <<260, 100, 100, 60>>, area |-> 5841,  mean_diff |-> 60,
             blue_increase |-> -10, red_increase |-> 12, green_decrease |-> 25,
             correlation |-> 60] >>

\* np.count_nonzero(thresh) for the pair (threshold 30).
ChangedPixels(before_img, after_img) ==
    IF before_img = after_img THEN 0 ELSE 45830

\* Contours of the Canny edges of the before image: bounding rectangle, area,
\* number of vertices of cv2.approxPolyDP, and the (uniform) grey level of the
\* crop in the before and in the after image.
BuildingContours(before_img) ==
    << [rect |-> <<240, 90, 80, 80>>, area |-> 6241, vertices |-> 4,
        gray_before |-> 200, gray_after |-> 140],
       [rect |-> <<10, 260, 20, 20>>, area |-> 361,  vertices |-> 4,
        gray_before |-> 90,  gray_after |-> 90],
       [rect |-> <<295, 15, 30, 30>>, area |-> 841,  vertices |-> 4,
        gray_before |-> 120, gray_after |-> 100],
       [rect |-> <<100, 10, 60, 30>>, area |-> 1500, vertices |-> 12,
        gray_before |-> 80,  gray_after |-> 80],
       [rect |-> <<20, 20, 25, 25>>,  area |-> 576,  vertices |-> 6,
        gray_before |-> 60,  gray_after |-> 60] >>

\* Contours of the cleaned road mask (grey HSV range) of the before image.
RoadContours(before_img) ==
    << [rect |-> <<370, 250, 30, 30>>, area |-> 841],
       [rect |-> <<0, 120, 400, 40>>,  area |-> 15561] >>

\* calculate_texture_difference of the two crops at a rectangle.
TextureDifference(before_img, after_img, rect) ==
    CASE rect = <<50, 120, 200, 40>>  -> 65
      [] rect = <<260, 120, 100, 40>> -> 45
      [] OTHER -> 10

\* Contours of the cleaned "water after, not before" mask, with the mean of
\* the blue channel of the after crop.
FloodContours(before_img, after_img) ==
    IF before_img = after_img THEN <<>>
    ELSE << [rect |-> <<5, 5, 12, 12>>,      area |-> 121,   mean_blue |-> 100],
            [rect |-> <<50, 50, 200, 200>>,  area |-> 39601, mean_blue |-> 200] >>

\* Contours of the cleaned "vegetation before, not after" mask, with the mean
\* of the green channel of the before crop.
VegetationContours(before_img, after_img) ==
    IF before_img = after_img THEN <<>>
    ELSE << [rect |-> <<380, 280, 15, 15>>,  area |-> 196,  mean_green |-> 90],
            [rect |-> <<260, 100, 100, 60>>, area |-> 5841, mean_green |-> 120] >>

(***************************************************************************)
(* Helpers.                                                                *)
(***************************************************************************)
Flatten(ss) ==
    LET flat[i \in 0..Len(ss)] == IF i = 0 THEN <<>> ELSE flat[i - 1] \o ss[i]
    IN  flat[Len(ss)]

Range(s) == {s[i] : i \in DOMAIN s}

\* [x, y, x+w, y+h] as the detectors store it.
Coordinates(rect) == <<rect[1], rect[2], rect[1] + rect[3], rect[2] + rect[4]>>

\* The axis-aligned overlap test of detect_building_damage / detect_road_damage.
Overlaps(r, d) ==
    /\ r[1] < d[1] + d[3]
    /\ r[1] + r[3] > d[1]
    /\ r[2] < d[2] + d[4]
    /\ r[2] + r[4] > d[2]

Min(a, b) == IF a < b THEN a ELSE b
Max(a, b) == IF a > b THEN a ELSE b

\* Python's round and format of n/d (n >= 0, d > 0) to an integer: to the
\* nearest, a tie to the even neighbour.
round_half_even(n, d) ==
    LET q == n \div d
        r == n % d
    IN  IF 2 * r < d THEN q
        ELSE IF 2 * r > d THEN q + 1
        ELSE IF q % 2 = 0 THEN q ELSE q + 1

\* Values of the key "area", the one key whose Python type differs between
\* the collections: float(area), and the text f"{area_sqm:.1f} sqm" with
\* area_sqm = area * 0.25 (the number is kept in tenths).
float(x) == [float |-> x]
format_sqm(area) == [str |-> <<round_half_even(area * 10, 4), " sqm">>]

(***************************************************************************)
(* The change measure on pixels.  A grayscale image is the sequence of its *)
(* 8-bit pixels.                                                           *)
(***************************************************************************)
\* cv2.absdiff of two uint8 images: the absolute difference, no wrap-around.
absdiff(a, b) == [i \in DOMAIN a |-> IF a[i] >= b[i] THEN a[i] - b[i] ELSE b[i] - a[i]]

\* cv2.threshold with THRESH_BINARY_INV: 255 where the pixel is at most thresh.
threshold_binary_inv(src, thresh) ==
    [i \in DOMAIN src |-> IF src[i] > thresh THEN 0 ELSE 255]

\* cv2.threshold(src, thresh, 255, cv2.THRESH_BINARY): 255 where the pixel
\* exceeds thresh, 0 elsewhere.
threshold(src, thresh) ==
    [i \in DOMAIN src |-> IF src[i] > thresh THEN 255 ELSE 0]

count_nonzero(img) == Cardinality({i \in DOMAIN img : img[i] # 0})

\* round((np.count_nonzero(thresh) / thresh.size) * 100, 2), in hundredths
\* of a percent.
change_percentage(pre_gray, post_gray, thresh) ==
    LET diff == absdiff(pre_gray, post_gray)
        binary == threshold(diff, thresh)
    IN  round_half_even(count_nonzero(binary) * 10000, Len(binary))

(***************************************************************************)
(* The random module.  A run starts with the generator in some state       *)
(* (seed); the draw made for the n-th contour is the low end, the middle   *)
(* or the high end of the range.                                           *)
(***************************************************************************)
Seeds == {0, 1}

\* random_uniform reaching beyond the high end of the range.
random_uniform_beyond_range(seed, n, low, high) == low + ((seed + n) % 3) * (high - low)

\* round(random.uniform(low, high), 2), in hundredths.
random_uniform(seed, n, low, high) == low + (((seed + n) % 3) * (high - low)) \div 2

random_choice(seed, n, options) == options[((seed + n) % Len(options)) + 1]

(***************************************************************************)
(* The classifiers.                                                        *)
(***************************************************************************)
calculate_damage_severity(mean_diff) ==
    IF mean_diff > 100 THEN "Critical"
    ELSE IF mean_diff > 70 THEN "High"
    ELSE IF mean_diff > 40 THEN "Medium"
    ELSE "Low"

estimated_recovery(severity) ==
    CASE severity = "Critical" -> "6+ months"
      [] severity = "High"     -> "3-6 months"
      [] severity = "Medium"   -> "1-3 months"
      [] OTHER                 -> "<1 month"

\* classify_damage_type asking for fire before flooding.
classify_damage_type_fire_first(roi, disaster_type) ==
    IF disaster_type = "fire" \/ roi.red_increase > 30 THEN "Fire Damage"
    ELSE IF disaster_type = "flood" \/ roi.blue_increase > 30 THEN "Flooding"
    ELSE IF disaster_type = "earthquake" /\ roi.texture_diff > 50 THEN "Building Collapse"
    ELSE IF roi.texture_diff > 50 /\ roi.correlation < 50 THEN "Structural Damage"
    ELSE IF roi.green_decrease > 20 THEN "Vegetation Loss"
    ELSE IF roi.correlation < 30 THEN "Severe Damage"
    ELSE IF roi.correlation < 70 THEN "Surface Damage"
    ELSE "Minor Change"

\* roi: what the function measures on the two crops (correlation in
\* hundredths).
classify_damage_type(roi, disaster_type) ==
    IF disaster_type = "flood" \/ roi.blue_increase > 30 THEN "Flooding"
    ELSE IF disaster_type = "fire" \/ roi.red_increase > 30 THEN "Fire Damage"
    ELSE IF disaster_type = "earthquake" /\ roi.texture_diff > 50 THEN "Building Collapse"
    ELSE IF roi.texture_diff > 50 /\ roi.correlation < 50 THEN "Structural Damage"
    ELSE IF roi.green_decrease > 20 THEN "Vegetation Loss"
    ELSE IF roi.correlation < 30 THEN "Severe Damage"
    ELSE IF roi.correlation < 70 THEN "Surface Damage"
    ELSE "Minor Change"

\* The measurements of classify_damage_type on the crops of a contour.
Roi(before_img, after_img, contour) ==
    [blue_increase |-> contour.blue_increase,
     red_increase |-> contour.red_increase,
     green_decrease |-> contour.green_decrease,
     texture_diff |-> TextureDifference(before_img, after_img, contour.rect),
     correlation |-> contour.correlation]

analyze_damaged_areas(contours, before_img, after_img, disaster_type, analysis_level) ==
    Flatten([i \in 1..Len(contours) |->
        IF contours[i].area < 100 THEN <<>>
        ELSE LET severity == calculate_damage_severity(contours[i].mean_diff)
                 basic == [id |-> i,
                           coordinates |-> Coordinates(contours[i].rect),
                           area |-> float(contours[i].area),
                           severity |-> severity,
                           type |-> classify_damage_type(
                                        Roi(before_img, after_img, contours[i]),
                                        disaster_type),
                           confidence |->
                               Min(round_half_even(9000 + contours[i].area, 100), 99)]
             IN  IF analysis_level = "detailed"
                 THEN <<basic @@ [estimated_recovery |-> estimated_recovery(severity)]>>
                 ELSE <<basic>>])

\* numpy uint8 arithmetic: the subtraction and the square both wrap at 256.
calculate_building_damage_severity(gray_before, gray_after) ==
    LET diff == (gray_before - gray_after) % 256
        mse  == (diff * diff) % 256
    IN  IF mse > 3000 THEN "Collapsed"
        ELSE IF mse > 2000 THEN "Severely Damaged"
        ELSE IF mse > 1000 THEN "Partially Damaged"
        ELSE "Minor Damage"

building_type(severity) ==
    CASE severity = "Collapsed"         -> "Complete Structural Failure"
      [] severity = "Severely Damaged"  -> "Major Structural Damage"
      [] severity = "Partially Damaged" -> "Exterior Damage"
      [] OTHER                          -> "Superficial Damage"

building_safety(severity) ==
    CASE severity \in {"Collapsed", "Severely Damaged"} -> "Unsafe - No Entry"
      [] severity = "Partially Damaged"                 -> "Restricted Entry"
      [] OTHER                                          -> "Inspection Needed"

detect_building_damage(before_img, contours, analysis_level, seed) ==
    LET building_contours == BuildingContours(before_img)
    IN  Flatten([i \in 1..Len(building_contours) |->
            LET b == building_contours[i]
            IN  IF b.area < 500 THEN <<>>
                ELSE IF ~(b.vertices >= 4 /\ b.vertices <= 8) THEN <<>>
                ELSE IF ~(\E k \in 1..Len(contours) : Overlaps(b.rect, contours[k].rect))
                     THEN <<>>
                ELSE LET severity ==
                             calculate_building_damage_severity(b.gray_before, b.gray_after)
                         basic == [id |-> i,
                                   coordinates |-> Coordinates(b.rect),
                                   severity |-> severity,
                                   confidence |-> random_uniform(seed, i, 75, 95)]
                     IN  IF analysis_level = "detailed"
                         THEN <<basic @@ [type |-> building_type(severity),
                                          safety |-> building_safety(severity)]>>
                         ELSE <<basic>>])

calculate_road_damage_severity(texture_diff) ==
    IF texture_diff > 60 THEN "Severe"
    ELSE IF texture_diff > 40 THEN "Moderate"
    ELSE "Minor"

passability(severity) ==
    CASE severity = "Severe"   -> "Impassable"
      [] severity = "Moderate" -> "Difficult Passage"
      [] OTHER                 -> "Passable with Caution"

\* detect_road_damage leaving the inner loop at the first overlap, as the
\* building detector does.
detect_road_damage_first_overlap(before_img, after_img, contours, analysis_level, seed) ==
    LET road_contours == RoadContours(before_img)
    IN  Flatten([i \in 1..Len(road_contours) |->
            LET r == road_contours[i].rect
            IN  IF road_contours[i].area < 1000 THEN <<>>
                ELSE Flatten([k \in 1..Len(contours) |->
                    LET d == contours[k].rect
                        overlap_x == Max(r[1], d[1])
                        overlap_y == Max(r[2], d[2])
                        overlap_w == Min(r[1] + r[3], d[1] + d[3]) - overlap_x
                        overlap_h == Min(r[2] + r[4], d[2] + d[4]) - overlap_y
                        overlap == <<overlap_x, overlap_y, overlap_w, overlap_h>>
                    IN  IF ~Overlaps(r, d) THEN <<>>
                        ELSE IF \E m \in 1..(k - 1) : Overlaps(r, contours[m].rect) THEN <<>>
                        ELSE <<[id |-> i,
                                coordinates |-> Coordinates(overlap),
                                severity |-> calculate_road_damage_severity(
                                                 TextureDifference(before_img, after_img,
                                                                   overlap)),
                                confidence |-> random_uniform(seed, i + k, 80, 95)]>>])])

detect_road_damage(before_img, after_img, contours, analysis_level, seed) ==
    LET road_contours == RoadContours(before_img)
    IN  Flatten([i \in 1..Len(road_contours) |->
            LET r == road_contours[i].rect
            IN  IF road_contours[i].area < 1000 THEN <<>>
                ELSE Flatten([k \in 1..Len(contours) |->
                    LET d == contours[k].rect
                        overlap_x == Max(r[1], d[1])
                        overlap_y == Max(r[2], d[2])
                        overlap_w == Min(r[1] + r[3], d[1] + d[3]) - overlap_x
                        overlap_h == Min(r[2] + r[4], d[2] + d[4]) - overlap_y
                        overlap == <<overlap_x, overlap_y, overlap_w, overlap_h>>
                        severity == calculate_road_damage_severity(
                                        TextureDifference(before_img, after_img, overlap))
                        basic == [id |-> i,
                                  coordinates |-> Coordinates(overlap),
                                  severity |-> severity,
                                  confidence |-> random_uniform(seed, i + k, 80, 95)]
                    IN  IF ~Overlaps(r, d) THEN <<>>
                        ELSE IF overlap_w <= 0 \/ overlap_h <= 0 THEN <<>>
                        ELSE IF analysis_level = "detailed"
                        THEN <<basic @@ [length_half_m |-> Max(overlap_w, overlap_h),
                                         passability |-> passability(severity)]>>
                        ELSE <<basic>>])])

estimate_water_depth(mean_blue) ==
    IF mean_blue > 180 THEN "0.5-1.0m"
    ELSE IF mean_blue > 150 THEN "1.0-2.0m"
    ELSE IF mean_blue > 120 THEN "2.0-3.0m"
    ELSE ">3.0m"

\* detect_flooded_areas with the minimum area made to depend on the level.
detect_flooded_areas_level_cutoff(before_img, after_img, analysis_level, seed) ==
    LET flood_contours == FloodContours(before_img, after_img)
        min_area == IF analysis_level = "detailed" THEN 100 ELSE 500
    IN  Flatten([i \in 1..Len(flood_contours) |->
            LET c == flood_contours[i]
            IN  IF c.area < min_area THEN <<>>
                ELSE <<[id |-> i,
                        coordinates |-> Coordinates(c.rect),
                        water_depth |-> estimate_water_depth(c.mean_blue),
                        area |-> float(c.area),
                        confidence |-> random_uniform(seed, i, 85, 98)]>>])

\* detect_flooded_areas taking the water of the after image as new water,
\* whatever the before image shows.
detect_flooded_areas_after_mask_only(before_img, after_img, analysis_level, seed) ==
    LET flood_contours == FloodContours(None, after_img)
    IN  Flatten([i \in 1..Len(flood_contours) |->
            LET c == flood_contours[i]
            IN  IF c.area < 500 THEN <<>>
                ELSE <<[id |-> i,
                        coordinates |-> Coordinates(c.rect),
                        water_depth |-> estimate_water_depth(c.mean_blue),
                        area |-> float(c.area),
                        confidence |-> random_uniform(seed, i, 85, 98)]>>])

detect_flooded_areas(before_img, after_img, analysis_level, seed) ==
    LET flood_contours == FloodContours(before_img, after_img)
    IN  Flatten([i \in 1..Len(flood_contours) |->
            LET c == flood_contours[i]
                basic == [id |-> i,
                          coordinates |-> Coordinates(c.rect),
                          water_depth |-> estimate_water_depth(c.mean_blue),
                          area |-> float(c.area),
                          confidence |-> random_uniform(seed, i, 85, 98)]
            IN  IF c.area < 500 THEN <<>>
                ELSE IF analysis_level = "detailed"
                THEN <<basic @@
                       [area_sqm |-> round_half_even(c.area * 10, 4),
                        flow_direction |->
                            random_choice(seed, i + 1,
                                          <<"North", "South", "East", "West">>),
                        flood_timeline |->
                            random_choice(seed, i + 2,
                                          <<"Recent (< 24h)", "1-3 days", "> 3 days">>)]>>
                ELSE <<basic>>])

vegetation_density(mean_green) ==
    IF mean_green > 150 THEN "Dense"
    ELSE IF mean_green > 100 THEN "Moderate"
    ELSE "Sparse"

\* area_sqm = area * 0.25 compared with 10000 and 5000.
ecological_impact(area) ==
    IF area > 40000 THEN "Severe"
    ELSE IF area > 20000 THEN "Moderate"
    ELSE "Low"

detect_vegetation_loss(before_img, after_img, analysis_level, seed) ==
    LET veg_contours == VegetationContours(before_img, after_img)
    IN  Flatten([i \in 1..Len(veg_contours) |->
            LET c == veg_contours[i]
                basic == [id |-> i,
                          coordinates |-> Coordinates(c.rect),
                          area |-> format_sqm(c.area),
                          confidence |-> random_uniform(seed, i, 80, 95)]
            IN  IF c.area < 500 THEN <<>>
                ELSE IF analysis_level = "detailed"
                THEN <<basic @@
                       [density |-> vegetation_density(c.mean_green),
                        vegetation_type |->
                            random_choice(seed, i + 1,
                                          <<"Forest", "Cropland", "Grassland", "Shrubland">>),
                        ecological_impact |-> ecological_impact(c.area)]>>
                ELSE <<basic>>])

\* The classifier calls compare_images makes at a level, in call order.
ClassifiersRun(analysis_level) ==
    IF analysis_level = "basic"
    THEN <<"damaged_areas">>
    ELSE <<"damaged_areas", "building_damage", "road_damage",
           "flooded_areas", "vegetation_loss">>

\* round((changed_pixels / total_pixels) * 100, 2), in hundredths of a percent.
changed_pixels_percentage(before_img, after_img) ==
    LET total_pixels == Shape(before_img)[1] * Shape(before_img)[2]
    IN  (2 * 10000 * ChangedPixels(before_img, after_img) + total_pixels)
            \div (2 * total_pixels)

(***************************************************************************)
(* calculate_severity_score.  Scores are kept in units of 10^-7, the       *)
(* weights in tenths and the logarithms in millionths.                     *)
(***************************************************************************)
\* The keys of severity_weights, in the order of the dict.
SeverityLabels ==
    << "Critical", "Collapsed", "Severe", "Severely Damaged", "High", "Moderate",
       "Partially Damaged", "Medium", "Low", "Minor", "Minor Damage", "Minor Change" >>

\* The values of severity_weights, in tenths.
severity_weights ==
    [label \in Range(SeverityLabels) |->
        CASE label \in {"Critical", "Collapsed"}          -> 100
          [] label \in {"Severe", "Severely Damaged"}     -> 80
          [] label = "High"                               -> 60
          [] label \in {"Moderate", "Partially Damaged"}  -> 40
          [] label = "Medium"                             -> 30
          [] label \in {"Low", "Minor", "Minor Damage"}   -> 10
          [] label = "Minor Change"                       -> 5]

\* math.log1p(count) in millionths, for the counts 1 to 10.
log1p(count) ==
    << 693147, 1098612, 1386294, 1609438, 1791759,
       1945910, 2079442, 2197225, 2302585, 2397895 >>[count]

\* count_severities noting only that a severity occurs, not how often.
count_severities_by_presence(severity_counts, regions) ==
    [label \in DOMAIN severity_counts |->
        IF \E n \in DOMAIN regions : regions[n].severity = label
        THEN Max(severity_counts[label], 1)
        ELSE severity_counts[label]]

\* One of the three counting loops: every region whose severity is a key of
\* severity_counts adds one to the count of that key.
count_severities(severity_counts, regions) ==
    LET counted[n \in 0..Len(regions)] ==
            IF n = 0 THEN severity_counts
            ELSE IF regions[n].severity \in DOMAIN severity_counts
            THEN [counted[n - 1] EXCEPT ![regions[n].severity] = @ + 1]
            ELSE counted[n - 1]
    IN  counted[Len(regions)]

calculate_severity_score(changed_percentage, damaged_areas, building_damage, road_damage, flooded_areas, vegetation_loss) ==
    LET base_score == Min(changed_percentage \div 10, 10 * 10000000)
        severity_counts ==
            count_severities(
                count_severities(
                    count_severities([label \in Range(SeverityLabels) |-> 0],
                                     damaged_areas),
                    building_damage),
                road_damage)
        added[n \in 0..Len(SeverityLabels)] ==
            IF n = 0 THEN 0
            ELSE IF severity_counts[SeverityLabels[n]] > 0
            THEN added[n - 1]
                     + severity_weights[SeverityLabels[n]]
                           * log1p(severity_counts[SeverityLabels[n]])
            ELSE added[n - 1]
        severity_score == added[Len(SeverityLabels)]
        flood_factor == Min(Len(flooded_areas) * 2, 10) * 10000000
        vegetation_factor == Min(Len(vegetation_loss) * 5, 50) * 1000000
        total_score == base_score + severity_score + flood_factor + vegetation_factor
        \* total_score / 10.0 in units of 10^-8
        normalized_score == Min(Max(total_score, 0), 10 * 100000000)
    IN  \* round(normalized_score, 1), in tenths
        round_half_even(normalized_score, 10000000)

(***************************************************************************)
(* compare_images: the pipeline proper.                                    *)
(***************************************************************************)
compare_images(before_img, after_img, comparison_id, disaster_type, analysis_level, seed) ==
    LET contours == Contours(before_img, after_img)
        total_pixels == Shape(before_img)[1] * Shape(before_img)[2]
        changed_pixels == ChangedPixels(before_img, after_img)
        \* (changed_pixels / total_pixels) * 100 in units of 10^-7, by long
        \* division to four decimals
        changed_percentage ==
            ((changed_pixels * 100) \div total_pixels) * 10000000
                + ((((changed_pixels * 100) % total_pixels) * 10000) \div total_pixels) * 1000
        specific == analysis_level # "basic"
        damaged_areas ==
            analyze_damaged_areas(contours, before_img, after_img, disaster_type,
                                  analysis_level)
        building_damage ==
            IF specific
            THEN detect_building_damage(before_img, contours, analysis_level, seed)
            ELSE <<>>
        road_damage ==
            IF specific
            THEN detect_road_damage(before_img, after_img, contours, analysis_level, seed)
            ELSE <<>>
        flooded_areas ==
            IF specific
            THEN detect_flooded_areas(before_img, after_img, analysis_level, seed)
            ELSE <<>>
        vegetation_loss ==
            IF specific
            THEN detect_vegetation_loss(before_img, after_img, analysis_level, seed)
            ELSE <<>>
    IN  [comparison_id |-> comparison_id,
         changed_pixels_percentage |-> changed_pixels_percentage(before_img, after_img),
         severity_score |->
             calculate_severity_score(changed_percentage, damaged_areas, building_damage,
                                      road_damage, flooded_areas, vegetation_loss),
         damaged_areas |-> damaged_areas,
         building_damage |-> building_damage,
         road_damage |-> road_damage,
         flooded_areas |-> flooded_areas,
         vegetation_loss |-> vegetation_loss,
         analysis_level |-> analysis_level,
         disaster_type |-> disaster_type]

VARIABLES
    analysis_jobs,   \* main.py:142  comparison_id -> job record
    tasks,           \* background tasks added and not yet finished: id -> arguments
    running,         \* the ids of the task holding the event loop ({}: loop is free)
    pc,              \* position of the running task in process_analysis_job
    results_dir,     \* RESULTS_DIR/<id>.json: id -> [exists, content]
    result_images,   \* ids whose _before/_after/_diff.jpg exist in RESULTS_DIR
    issued,          \* number of uuid4 ids generated so far
    response,        \* the last HTTP response sent
    result,          \* the local variable result of the running task (<<>>: not set)
    call,            \* a function called on its own, with its arguments
    returned,        \* what that call returned (<<>>: not called yet)
    analysis_store   \* chatbot/analysis_api.py:36  the stored contexts, in insertion order

vars == <<analysis_jobs, tasks, running, pc, results_dir, result_images, issued, response,
          result, call, returned, analysis_store>>

\* A response: the endpoint, the id it is about ({}: none), the status code, the detail
\* of an HTTPException and the JSON content of a 200.
Response(op, id, code, detail, content) ==
    [op |-> op, id |-> id, code |-> code, detail |-> detail, content |-> content]

NoResponse == Response("none", {}, 0, <<>>, <<>>)

\* RESULTS_DIR/<id>.json: no file, a file json.dump did not finish (empty or
\* truncated), or the file holding the whole result.
NoFile == [exists |-> FALSE, content |-> <<>>]
PartialFile == [exists |-> TRUE, content |-> <<>>]
FullFile(result_dict) == [exists |-> TRUE, content |-> <<result_dict>>]

\* No function is called on its own.
NoCall == [function |-> "none"]

\* The server has started: the registry and the analysis store are empty,
\* RESULTS_DIR holds nothing.
ServerStarted ==
    /\ analysis_jobs = <<>>
    /\ tasks = <<>>
    /\ running = {}
    /\ pc = "idle"
    /\ results_dir = [id \in ComparisonIds |-> NoFile]
    /\ result_images = {}
    /\ issued = 0
    /\ response = NoResponse
    /\ result = <<>>
    /\ analysis_store = <<>>

Init ==
    /\ ServerStarted
    /\ call = NoCall
    /\ returned = <<>>

Remove(f, id) == [k \in DOMAIN f \ {id} |-> f[k]]

(***************************************************************************)
(* update_job_status                                                       *)
(***************************************************************************)
\* update_job_status writing the status and the message, not the progress.
update_job_status_without_progress(jobs, comparison_id, status, progress, message) ==
    IF comparison_id \in DOMAIN jobs
    THEN [jobs EXCEPT ![comparison_id] =
              [status |-> status, progress |-> jobs[comparison_id].progress,
               message |-> message]]
    ELSE jobs

\* update_job_status writing the new values into every record of the registry.
update_job_status_every_record(jobs, comparison_id, status, progress, message) ==
    IF comparison_id \in DOMAIN jobs
    THEN [k \in DOMAIN jobs |->
              [status |-> status, progress |-> progress, message |-> message]]
    ELSE jobs

update_job_status(jobs, comparison_id, status, progress, message) ==
    IF comparison_id \in DOMAIN jobs
    THEN [jobs EXCEPT ![comparison_id] =
              [status |-> status, progress |-> progress, message |-> message]]
    ELSE jobs

(***************************************************************************)
(* POST /api/analyze                                                       *)
(***************************************************************************)
\* The synchronous branch: what the handler answers for two stored images.
SyncOutcomes(request, comparison_id) ==
    LET before_img == imread(request.before_image_id)
        after_img == imread(request.after_image_id)
    IN  IF before_img = None \/ after_img = None
        THEN {[code |-> 500, detail |-> <<"Analysis failed: ", "AttributeError">>,
               content |-> <<>>, wrote |-> FALSE]}
        ELSE {[code |-> 200, detail |-> <<>>,
               content |-> <<compare_images(before_img, after_img, comparison_id,
                                            request.disaster_type,
                                            request.analysis_level, seed)>>,
               wrote |-> TRUE] : seed \in Seeds}
             \cup
             {[code |-> 500, detail |-> <<"Analysis failed: ", c>>,
               content |-> <<>>, wrote |-> TRUE] :
                  c \in Range(ClassifiersRun(request.analysis_level))}

\* images_found without the check of the after image.
images_found_before_only(request) == exists(request.before_image_id)

\* The check of before_path.exists() and after_path.exists().
images_found(request) ==
    exists(request.before_image_id) /\ exists(request.after_image_id)

analyze_images(request, async_mode) ==
    /\ UNCHANGED <<result, call, returned, analysis_store>>
    /\ running = {}
    /\ IF ~images_found(request)
       THEN /\ response' = Response("analyze", {}, 404,
                                    <<"One or both images not found">>, <<>>)
            /\ UNCHANGED <<analysis_jobs, tasks, running, pc, results_dir,
                           result_images, issued>>
       ELSE /\ issued < MaxComparisons
            /\ LET comparison_id == issued + 1
               IN  /\ issued' = comparison_id
                   /\ IF async_mode \/ request.async_mode
                      THEN LET job_status == [status |-> "queued", progress |-> 0,
                                              message |-> NoMessage]
                           IN  /\ analysis_jobs' = (comparison_id :> job_status) @@ analysis_jobs
                               /\ tasks' = (comparison_id :>
                                               [before_path |-> request.before_image_id,
                                                after_path |-> request.after_image_id,
                                                disaster_type |-> request.disaster_type,
                                                analysis_level |-> request.analysis_level])
                                           @@ tasks
                               /\ response' = Response("analyze", {comparison_id}, 200,
                                                       <<>>, <<job_status>>)
                               /\ UNCHANGED <<running, pc, results_dir, result_images>>
                      ELSE \E out \in SyncOutcomes(request, comparison_id) :
                               /\ response' = Response("analyze", {comparison_id}, out.code,
                                                       out.detail, out.content)
                               /\ result_images' =
                                      IF out.wrote THEN result_images \cup {comparison_id}
                                      ELSE result_images
                               /\ UNCHANGED <<analysis_jobs, tasks, running, pc, results_dir>>

(***************************************************************************)
(* process_analysis_job: a coroutine without an await, so from its first   *)
(* statement to its last it holds the event loop (running).                *)
(***************************************************************************)
\* Fail without the except branch: the exception ends the task and the job
\* record stays as the last checkpoint wrote it.
Fail_exception_escapes(comparison_id, error) ==
    /\ tasks' = Remove(tasks, comparison_id)
    /\ running' = {}
    /\ pc' = "idle"
    /\ result' = <<>>
    /\ UNCHANGED analysis_jobs

\* The except branch: the job is marked failed and the task ends.
Fail(comparison_id, error) ==
    /\ analysis_jobs' = update_job_status(analysis_jobs, comparison_id, "failed", 0,
                                          <<"Analysis failed: ", error>>)
    /\ tasks' = Remove(tasks, comparison_id)
    /\ running' = {}
    /\ pc' = "idle"
    /\ result' = <<>>

Checkpoint(comparison_id, progress, message, next) ==
    /\ analysis_jobs' = update_job_status(analysis_jobs, comparison_id, "processing",
                                          progress, <<message>>)
    /\ pc' = next

StartJob(j) ==
    /\ UNCHANGED <<result, call, returned, analysis_store>>
    /\ running = {}
    /\ j \in DOMAIN tasks
    /\ running' = {j}
    /\ Checkpoint(j, 5, "Starting analysis...", "read_before")
    /\ UNCHANGED <<tasks, results_dir, result_images, issued, response>>

ReadBefore(j) ==
    /\ UNCHANGED <<result, call, returned, analysis_store>>
    /\ running = {j}
    /\ pc = "read_before"
    /\ Checkpoint(j, 10, "Reading before image...", "read_after")
    /\ UNCHANGED <<tasks, running, results_dir, result_images, issued, response>>

ReadAfter(j) ==
    /\ UNCHANGED <<result, call, returned, analysis_store>>
    /\ running = {j}
    /\ pc = "read_after"
    /\ Checkpoint(j, 15, "Reading after image...", "check_shape")
    /\ UNCHANGED <<tasks, running, results_dir, result_images, issued, response>>

CheckShape(j) ==
    /\ UNCHANGED <<call, returned, analysis_store>>
    /\ running = {j}
    /\ pc = "check_shape"
    /\ LET before_img == imread(tasks[j].before_path)
           after_img == imread(tasks[j].after_path)
       IN  IF before_img = None \/ after_img = None
           THEN /\ Fail(j, "AttributeError")
                /\ UNCHANGED <<results_dir, result_images, issued, response>>
           ELSE /\ IF Shape(before_img) # Shape(after_img)
                   THEN Checkpoint(j, 20, "Resizing images...", "start_comparison")
                   ELSE /\ pc' = "start_comparison"
                        /\ UNCHANGED analysis_jobs
                /\ UNCHANGED <<tasks, running, results_dir, result_images, issued,
                               response, result>>

StartComparison(j) ==
    /\ UNCHANGED <<result, call, returned, analysis_store>>
    /\ running = {j}
    /\ pc = "start_comparison"
    /\ Checkpoint(j, 25, "Starting comparison...", "stage_1")
    /\ UNCHANGED <<tasks, running, results_dir, result_images, issued, response>>

\* compare_images_with_progress: its eight status updates, in order.
Stages ==
    << [at |-> "stage_1", progress |-> 30, message |-> "Preprocessing images..."],
       [at |-> "stage_2", progress |-> 40, message |-> "Comparing images..."],
       [at |-> "stage_3", progress |-> 50, message |-> "Detecting general damage..."],
       [at |-> "stage_4", progress |-> 60, message |-> "Analyzing building damage..."],
       [at |-> "stage_5", progress |-> 70, message |-> "Analyzing road damage..."],
       [at |-> "stage_6", progress |-> 80, message |-> "Detecting flooded areas..."],
       [at |-> "stage_7", progress |-> 90, message |-> "Analyzing vegetation loss..."],
       [at |-> "stage_8", progress |-> 95, message |-> "Finalizing results..."] >>

ReportStage(j) ==
    /\ UNCHANGED <<result, call, returned, analysis_store>>
    /\ running = {j}
    /\ \E k \in DOMAIN Stages :
           /\ pc = Stages[k].at
           /\ Checkpoint(j, Stages[k].progress, Stages[k].message,
                         IF k < Len(Stages) THEN Stages[k + 1].at ELSE "compare_images")
    /\ UNCHANGED <<tasks, running, results_dir, result_images, issued, response>>

\* The call of compare_images: it writes the three jpgs, then runs the
\* classifiers; an exception raised by one of them is not caught there and
\* reaches the except branch of process_analysis_job.  Otherwise the value
\* returned is bound to result.
CompareImages(j) ==
    /\ UNCHANGED <<call, returned, analysis_store>>
    /\ running = {j}
    /\ pc = "compare_images"
    /\ result_images' = result_images \cup {j}
    /\ \/ \E c \in Range(ClassifiersRun(tasks[j].analysis_level)) : Fail(j, c)
       \/ /\ \E seed \in Seeds :
                 result' = <<compare_images(imread(tasks[j].before_path),
                                            imread(tasks[j].after_path), j,
                                            tasks[j].disaster_type,
                                            tasks[j].analysis_level, seed)>>
          /\ pc' = "mark_completed"
          /\ UNCHANGED <<analysis_jobs, tasks, running>>
    /\ UNCHANGED <<results_dir, issued, response>>

MarkCompleted(j) ==
    /\ UNCHANGED <<result, call, returned, analysis_store>>
    /\ running = {j}
    /\ pc = "mark_completed"
    /\ analysis_jobs' = update_job_status(analysis_jobs, j, "completed", 100,
                                          <<"Analysis completed successfully">>)
    /\ pc' = "open_results_file"
    /\ UNCHANGED <<tasks, running, results_dir, result_images, issued, response>>

\* open(results_file, "w"): the file is created empty, or the open raises.
OpenResultsFile(j) ==
    /\ UNCHANGED <<call, returned, analysis_store>>
    /\ running = {j}
    /\ pc = "open_results_file"
    /\ \/ /\ results_dir' = [results_dir EXCEPT ![j] = PartialFile]
          /\ pc' = "json_dump"
          /\ UNCHANGED <<analysis_jobs, tasks, running, result>>
       \/ /\ Fail(j, "OSError")
          /\ UNCHANGED results_dir
    /\ UNCHANGED <<result_images, issued, response>>

\* json.dump(result_dict, f): the whole result is written, or the write raises
\* and leaves the file incomplete.
JsonDump(j) ==
    /\ UNCHANGED <<call, returned, analysis_store>>
    /\ running = {j}
    /\ pc = "json_dump"
    /\ \/ /\ results_dir' = [results_dir EXCEPT ![j] = FullFile(result[1])]
          /\ tasks' = Remove(tasks, j)
          /\ running' = {}
          /\ pc' = "idle"
          /\ result' = <<>>
          /\ UNCHANGED analysis_jobs
       \/ /\ Fail(j, "OSError")
          /\ UNCHANGED results_dir
    /\ UNCHANGED <<result_images, issued, response>>

(***************************************************************************)
(* GET /api/analysis-status/{comparison_id}                                *)
(***************************************************************************)
analysis_status(jobs, comparison_id) ==
    IF comparison_id \notin DOMAIN jobs
    THEN [code |-> 404, detail |-> <<"Analysis job not found">>, content |-> <<>>]
    ELSE [code |-> 200, detail |-> <<>>, content |-> <<jobs[comparison_id]>>]

get_analysis_status(comparison_id) ==
    /\ UNCHANGED <<result, call, returned, analysis_store>>
    /\ running = {}
    /\ LET r == analysis_status(analysis_jobs, comparison_id)
       IN  response' = Response("status", {comparison_id}, r.code, r.detail, r.content)
    /\ UNCHANGED <<analysis_jobs, tasks, running, pc, results_dir, result_images, issued>>

(***************************************************************************)
(* GET /api/analysis-result/{comparison_id}                                *)
(***************************************************************************)
\* analysis_result without the branch for failed jobs.
analysis_result_no_failed_branch(jobs, dir, comparison_id) ==
    IF /\ comparison_id \in DOMAIN jobs
       /\ jobs[comparison_id].status = "completed"
       /\ dir[comparison_id].exists
    THEN [code |-> 200, detail |-> <<>>, content |-> dir[comparison_id].content]
    ELSE IF comparison_id \in DOMAIN jobs
    THEN [code |-> 202,
          detail |-> <<"Analysis is still ", jobs[comparison_id].status>>,
          content |-> <<>>]
    ELSE [code |-> 404, detail |-> <<"Analysis result not found">>, content |-> <<>>]

analysis_result(jobs, dir, comparison_id) ==
    IF /\ comparison_id \in DOMAIN jobs
       /\ jobs[comparison_id].status = "completed"
       /\ dir[comparison_id].exists
    THEN IF dir[comparison_id].content = <<>>
         THEN \* json.load raises on the unfinished file
              [code |-> 500, detail |-> <<"Internal Server Error">>, content |-> <<>>]
         ELSE [code |-> 200, detail |-> <<>>, content |-> dir[comparison_id].content]
    ELSE IF comparison_id \in DOMAIN jobs
    THEN IF jobs[comparison_id].status = "failed"
         THEN [code |-> 500, detail |-> <<"Analysis failed">>, content |-> <<>>]
         ELSE [code |-> 202,
               detail |-> <<"Analysis is still ", jobs[comparison_id].status>>,
               content |-> <<>>]
    ELSE [code |-> 404, detail |-> <<"Analysis result not found">>, content |-> <<>>]

get_analysis_result(comparison_id) ==
    /\ UNCHANGED <<result, call, returned, analysis_store>>
    /\ running = {}
    /\ LET r == analysis_result(analysis_jobs, results_dir, comparison_id)
       IN  response' = Response("result", {comparison_id}, r.code, r.detail, r.content)
    /\ UNCHANGED <<analysis_jobs, tasks, running, pc, results_dir, result_images, issued>>

(***************************************************************************)
(* DELETE /api/analysis-result/{comparison_id}                             *)
(***************************************************************************)
delete_analysis_result(comparison_id) ==
    /\ UNCHANGED <<result, call, returned, analysis_store>>
    /\ running = {}
    /\ IF ~results_dir[comparison_id].exists
       THEN /\ response' = Response("delete", {comparison_id}, 404,
                                    <<"Analysis result not found">>, <<>>)
            /\ UNCHANGED <<analysis_jobs, results_dir, result_images>>
       ELSE /\ results_dir' = [results_dir EXCEPT ![comparison_id] = NoFile]
            /\ \/ /\ result_images' = result_images \ {comparison_id}
                  /\ analysis_jobs' = Remove(analysis_jobs, comparison_id)
                  /\ response' = Response("delete", {comparison_id}, 200,
                                          <<"Analysis result deleted successfully">>, <<>>)
               \/ \* os.remove of one of the jpgs raises
                  /\ comparison_id \in result_images
                  /\ UNCHANGED <<result_images, analysis_jobs>>
                  /\ response' = Response("delete", {comparison_id}, 500,
                                          <<"Failed to delete analysis result: ", "OSError">>,
                                          <<>>)
    /\ UNCHANGED <<tasks, running, pc, issued>>

(***************************************************************************)
(* The server process is stopped and started again: the module-level       *)
(* analysis_jobs = {} is executed anew, the background tasks are gone, the *)
(* files stay.                                                             *)
(***************************************************************************)
Restart ==
    /\ UNCHANGED <<call, returned, analysis_store>>
    /\ analysis_jobs' = <<>>
    /\ tasks' = <<>>
    /\ running' = {}
    /\ pc' = "idle"
    /\ response' = NoResponse
    /\ result' = <<>>
    /\ UNCHANGED <<results_dir, result_images, issued>>

Next ==
    \/ \E request \in Requests, async_mode \in BOOLEAN : analyze_images(request, async_mode)
    \/ \E j \in ComparisonIds : StartJob(j)
    \/ \E j \in ComparisonIds : ReadBefore(j)
    \/ \E j \in ComparisonIds : ReadAfter(j)
    \/ \E j \in ComparisonIds : CheckShape(j)
    \/ \E j \in ComparisonIds : StartComparison(j)
    \/ \E j \in ComparisonIds : ReportStage(j)
    \/ \E j \in ComparisonIds : CompareImages(j)
    \/ \E j \in ComparisonIds : MarkCompleted(j)
    \/ \E j \in ComparisonIds : OpenResultsFile(j)
    \/ \E j \in ComparisonIds : JsonDump(j)
    \/ \E j \in ComparisonIds : get_analysis_status(j)
    \/ \E j \in ComparisonIds : get_analysis_result(j)
    \/ \E j \in ComparisonIds : delete_analysis_result(j)
    \/ Restart

Spec == Init /\ [][Next]_vars

(***************************************************************************)
(* Properties of the job lifecycle.                                        *)
(***************************************************************************)
Terminal == {"completed", "failed"}

\* The jobs present in the registry before and after a step.
Kept == DOMAIN analysis_jobs \cap DOMAIN analysis_jobs'

HasResult(id) == results_dir[id].exists /\ results_dir[id].content # <<>>

\* The five region collections of a result, each reduced to the identity
\* (id, coordinates) of its regions.
Identity(regions) == [i \in DOMAIN regions |-> <<regions[i].id, regions[i].coordinates>>]

RegionIdentities(analysis) ==
    [damaged_areas |-> Identity(analysis.damaged_areas),
     building_damage |-> Identity(analysis.building_damage),
     road_damage |-> Identity(analysis.road_damage),
     flooded_areas |-> Identity(analysis.flooded_areas),
     vegetation_loss |-> Identity(analysis.vegetation_loss)]

ClassifierNames == Range(ClassifiersRun("standard"))

\* C1: the progress of a job never decreases: every step that keeps a job
\* in the registry leaves its progress at least as large as it was, on the
\* success path and on the failure path alike.
C1_ProgressNeverDecreases ==
    [][\A j \in Kept : analysis_jobs'[j].progress >= analysis_jobs[j].progress]_vars

\* C2: whenever the registry shows a job as completed, the result file of
\* that job has already been written in full.
C2_CompletedOnlyAfterPersisted ==
    \A j \in DOMAIN analysis_jobs :
        analysis_jobs[j].status = "completed" => HasResult(j)

\* C3: completed and failed are terminal: no step changes the status of a
\* job that is completed or failed.
C3_TerminalStatusIsFinal ==
    [][\A j \in Kept :
           analysis_jobs[j].status \in Terminal
               => analysis_jobs'[j].status = analysis_jobs[j].status]_vars

\* C4: a step that takes a job from processing to failed leaves its
\* progress at the last checkpoint reached and sets the message to the
\* error summary.
C4_FailureKeepsProgress ==
    [][\A j \in Kept :
           (analysis_jobs[j].status = "processing" /\ analysis_jobs'[j].status = "failed")
               => /\ analysis_jobs'[j].progress = analysis_jobs[j].progress
                  /\ Len(analysis_jobs'[j].message) = 2
                  /\ analysis_jobs'[j].message[1] = "Analysis failed: "]_vars

\* C5: whenever a job in the registry is completed, the result query for
\* its id answers 200 with the job's AnalysisResult.
C5_CompletedResultRetrievable ==
    \A j \in DOMAIN analysis_jobs :
        analysis_jobs[j].status = "completed"
            => LET r == analysis_result(analysis_jobs, results_dir, j)
               IN  r.code = 200 /\ Len(r.content) = 1 /\ r.content[1].comparison_id = j

\* C6: a failed job has no result: its result file does not hold a result,
\* and the result query for it answers with the failure indication and no
\* result data.
C6_FailedJobHasNoResult ==
    \A j \in DOMAIN analysis_jobs :
        analysis_jobs[j].status = "failed"
            => /\ ~HasResult(j)
               /\ LET r == analysis_result(analysis_jobs, results_dir, j)
                  IN  r.code = 500 /\ r.detail = <<"Analysis failed">> /\ r.content = <<>>

C6_Witness ==
    \E j \in DOMAIN analysis_jobs :
        /\ analysis_jobs[j].status = "failed"
        /\ results_dir[j] = PartialFile
        /\ response.op = "result" /\ response.id = {j} /\ response.code = 500

\* C7: a restart keeps results retrievable: for a job that is completed and
\* whose result is persisted, the result query after the restart still
\* answers 200 with that result.
C7_ResultSurvivesRestart ==
    [][Restart =>
           \A j \in DOMAIN analysis_jobs :
               (analysis_jobs[j].status = "completed" /\ HasResult(j))
                   => LET r == analysis_result(analysis_jobs', results_dir', j)
                      IN  r.code = 200 /\ r.content = results_dir[j].content]_vars

C9_ClassifierFailureDoesNotFailJob ==
    \A j \in DOMAIN analysis_jobs :
        ~ /\ analysis_jobs[j].status = "failed"
          /\ Len(analysis_jobs[j].message) = 2
          /\ analysis_jobs[j].message[2] \in ClassifierNames

\* C10: a comparison request naming an image that does not exist is answered
\* 404 and creates nothing: registry, background tasks and issued ids are
\* unchanged, and no task ever refers to a missing image.
C10_MissingImageCreatesNoJob ==
    /\ [][\A request \in Requests, async_mode \in BOOLEAN :
              ( /\ ~(exists(request.before_image_id) /\ exists(request.after_image_id))
                /\ analyze_images(request, async_mode) )
                  => /\ response'.op = "analyze" /\ response'.code = 404
                     /\ UNCHANGED <<analysis_jobs, tasks, issued, results_dir, result_images>>]_vars
    /\ [](\A j \in DOMAIN tasks :
              exists(tasks[j].before_path) /\ exists(tasks[j].after_path))
    /\ [](DOMAIN analysis_jobs \subseteq 1..issued)

C10_Witness ==
    /\ response.op = "analyze"
    /\ response.code = 404
    /\ \E j \in DOMAIN analysis_jobs : analysis_jobs[j].status = "queued"

(***************************************************************************)
(* Scheduling.  Starlette awaits a response's background tasks once the    *)
(* response is sent, and a coroutine that has started runs on: each step   *)
(* of a job's worker that stays possible is eventually taken.              *)
(***************************************************************************)
Worker(j) ==
    \/ StartJob(j)
    \/ ReadBefore(j)
    \/ ReadAfter(j)
    \/ CheckShape(j)
    \/ StartComparison(j)
    \/ ReportStage(j)
    \/ CompareImages(j)
    \/ MarkCompleted(j)
    \/ OpenResultsFile(j)
    \/ JsonDump(j)

FairSpec == Spec /\ \A j \in ComparisonIds : WF_vars(Worker(j))

Pending(j) ==
    j \in DOMAIN analysis_jobs /\ analysis_jobs[j].status \in {"queued", "processing"}

Finished(j) ==
    j \in DOMAIN analysis_jobs /\ analysis_jobs[j].status \in Terminal

\* C11: under fair scheduling of its worker, every job that is queued or
\* processing eventually is completed or failed, whichever of the errors of
\* reading, analysing or persisting occurs; the one way a pending job goes
\* without reaching a terminal status is the end of the server process
\* itself, which ends its worker too.
C11_EveryJobTerminates ==
    /\ \A j \in ComparisonIds : Pending(j) ~> (Finished(j) \/ j \notin DOMAIN analysis_jobs)
    /\ [][\A j \in ComparisonIds :
              (Pending(j) /\ j \notin DOMAIN analysis_jobs') => Restart]_vars

\* Both ways of ending have happened: one job completed with its result
\* written, another failed on an undecodable image.
C11_Witness ==
    \E j, k \in DOMAIN analysis_jobs :
        /\ analysis_jobs[j].status = "completed" /\ HasResult(j)
        /\ analysis_jobs[k].status = "failed"
        /\ analysis_jobs[k].message = <<"Analysis failed: ", "AttributeError">>

(***************************************************************************)
(* calculate_severity_score called on its own, on lists of regions of      *)
(* which it reads the severity and the number.                             *)
(***************************************************************************)
Repeat(label, n) == [i \in 1..n |-> label]

WithSeverity(labels) == [i \in DOMAIN labels |-> [severity |-> labels[i]]]

Numbered(n) == [i \in 1..n |-> [id |-> i]]

\* The largest number of regions with one severity in a call.
MaxSameSeverity == 9

SeverityScoreCalls ==
    [function : {"calculate_severity_score"},
     \* 0 %, 5 %, 38.1916 % and 100 %, in units of 10^-7
     changed_percentage : {0, 50000000, 381916000, 1000000000},
     damaged_areas :
         {WithSeverity(labels) :
              labels \in {<<>>, <<"Critical">>, <<"Low", "Low", "Medium">>, <<"Unrated">>,
                          Repeat("Critical", MaxSameSeverity)
                              \o Repeat("High", MaxSameSeverity)}},
     building_damage :
         {WithSeverity(labels) :
              labels \in {<<>>, <<"Minor Damage">>, <<"Collapsed", "Partially Damaged">>,
                          Repeat("Collapsed", MaxSameSeverity)
                              \o Repeat("Severely Damaged", MaxSameSeverity)}},
     road_damage :
         {WithSeverity(labels) :
              labels \in {<<>>, <<"Severe", "Minor">>,
                          Repeat("Severe", MaxSameSeverity)
                              \o Repeat("Moderate", MaxSameSeverity)}},
     flooded_areas : {Numbered(n) : n \in {0, 1, 5, 6}},
     vegetation_loss : {Numbered(n) : n \in {0, 1, 10, 11}}]

ScoreInit ==
    /\ ServerStarted
    /\ call \in SeverityScoreCalls
    /\ returned = <<>>

CallSeverityScore ==
    /\ call.function = "calculate_severity_score"
    /\ returned = <<>>
    /\ returned' = <<calculate_severity_score(call.changed_percentage, call.damaged_areas,
                                              call.building_damage, call.road_damage,
                                              call.flooded_areas, call.vegetation_loss)>>
    /\ UNCHANGED <<analysis_jobs, tasks, running, pc, results_dir, result_images, issued,
                   response, result, call, analysis_store>>

ScoreNext == CallSeverityScore

ScoreSpec == ScoreInit /\ [][ScoreNext]_vars

(***************************************************************************)
(* The change measure called on its own, on images of ImagePixels pixels   *)
(* and with the threshold of the options.                                  *)
(***************************************************************************)
ImagePixels == 3

GrayLevels == {0, 30, 31, 100, 255}

Thresholds == {0, 29, 30, 31, 99, 100, 254, 255}

ChangePercentageCalls ==
    [function : {"change_percentage"},
     pre_gray : {[i \in 1..ImagePixels |-> 0], [i \in 1..ImagePixels |-> 100],
                 [i \in 1..ImagePixels |-> IF i = 1 THEN 30 ELSE 255]},
     post_gray : [1..ImagePixels -> GrayLevels],
     threshold : Thresholds]

ThresholdInit ==
    /\ ServerStarted
    /\ call \in ChangePercentageCalls
    /\ returned = <<>>

CallChangePercentage ==
    /\ call.function = "change_percentage"
    /\ returned = <<>>
    /\ returned' = <<change_percentage(call.pre_gray, call.post_gray, call.threshold)>>
    /\ UNCHANGED <<analysis_jobs, tasks, running, pc, results_dir, result_images, issued,
                   response, result, call, analysis_store>>

ThresholdNext == CallChangePercentage

ThresholdSpec == ThresholdInit /\ [][ThresholdNext]_vars

(***************************************************************************)
(* The generic classifier called on its own: classify_damage_type on       *)
(* measurements around each of its cut-offs, analyze_damaged_areas on the  *)
(* changed contours of the stored pair, with every declared disaster type. *)
(***************************************************************************)
DeclaredTypes == {None, "flood", "fire", "earthquake", "hurricane"}

ClassifyCalls ==
    [function : {"classify_damage_type"},
     roi : [blue_increase : {30, 31}, red_increase : {30, 31}, green_decrease : {20, 21},
            texture_diff : {50, 51}, correlation : {29, 30, 49, 50, 69, 70}],
     disaster_type : DeclaredTypes]

AnalyzeDamagedAreasCalls ==
    [function : {"analyze_damaged_areas"},
     before_img : {"pre.jpg"},
     after_img : {"pre.jpg", "post.jpg"},
     disaster_type : DeclaredTypes,
     analysis_level : Levels]

ClassifyInit ==
    /\ ServerStarted
    /\ call \in ClassifyCalls \cup AnalyzeDamagedAreasCalls
    /\ returned = <<>>

CallClassifyDamageType ==
    /\ call.function = "classify_damage_type"
    /\ returned = <<>>
    /\ returned' = <<classify_damage_type(call.roi, call.disaster_type)>>
    /\ UNCHANGED <<analysis_jobs, tasks, running, pc, results_dir, result_images, issued,
                   response, result, call, analysis_store>>

CallAnalyzeDamagedAreas ==
    /\ call.function = "analyze_damaged_areas"
    /\ returned = <<>>
    /\ returned' = <<analyze_damaged_areas(Contours(call.before_img, call.after_img),
                                           call.before_img, call.after_img,
                                           call.disaster_type, call.analysis_level)>>
    /\ UNCHANGED <<analysis_jobs, tasks, running, pc, results_dir, result_images, issued,
                   response, result, call, analysis_store>>

ClassifyNext == CallClassifyDamageType \/ CallAnalyzeDamagedAreas

ClassifySpec == ClassifyInit /\ [][ClassifyNext]_vars

(***************************************************************************)
(* The analysis API of the chatbot (src/backend/chatbot/analysis_api.py).  *)
(* analysis_store is a dict: its items are kept here in insertion order.   *)
(* The n-th upload that can be analysed is a pair of images of which n     *)
(* percent have changed; an upload that cannot be decoded makes the        *)
(* analyzer raise.  An optional analysis id is <<>> (None) or <<id>>.      *)
(***************************************************************************)
\* Number of uploads analysed in one behaviour.
MaxUploads == 23

AnalysisIds == [n \in {0} \cup 1..(MaxUploads + 1) |-> <<n>>]

_get_impact_level(change_percent) ==
    IF change_percent < 10 THEN "Low"
    ELSE IF change_percent < 30 THEN "Medium"
    ELSE "High"

\* analyzer.get_chatbot_context of the result for a change of change_percent.
get_chatbot_context(change_percent) ==
    [impact_level |-> _get_impact_level(change_percent),
     change_percentage |-> change_percent]

Keys(store) == {store[n].key : n \in DOMAIN store}

Lookup(store, key) == store[CHOOSE n \in DOMAIN store : store[n].key = key].value

\* store_analysis deleting the last key instead of the first.
store_analysis_evict_newest(store, analysis_id, chatbot_context) ==
    LET stored == Append(store, [key |-> analysis_id, value |-> chatbot_context])
    IN  IF Len(stored) > 20 THEN SubSeq(stored, 1, Len(stored) - 1) ELSE stored

\* analysis_store[analysis_id] = chatbot_context, then the clean-up: with
\* more than 20 items the first key of the dict is deleted.
store_analysis(store, analysis_id, chatbot_context) ==
    LET stored ==
            IF analysis_id \in Keys(store)
            THEN [n \in DOMAIN store |->
                     IF store[n].key = analysis_id
                     THEN [key |-> analysis_id, value |-> chatbot_context]
                     ELSE store[n]]
            ELSE Append(store, [key |-> analysis_id, value |-> chatbot_context])
    IN  IF Len(stored) > 20 THEN Tail(stored) ELSE stored

\* POST /analyze
chatbot_analyze_images ==
    /\ \/ /\ issued < MaxUploads
          /\ LET analysis_id == issued + 1
                 chatbot_context == get_chatbot_context(analysis_id)
             IN  /\ issued' = analysis_id
                 /\ analysis_store' = store_analysis(analysis_store, analysis_id,
                                                     chatbot_context)
                 /\ response' = Response("chatbot_analyze", {analysis_id}, 200, <<>>,
                                         <<chatbot_context>>)
       \/ /\ response' = Response("chatbot_analyze", {}, 500,
                                   <<"Error analyzing images: ", "RuntimeError">>, <<>>)
          /\ UNCHANGED <<issued, analysis_store>>
    /\ UNCHANGED <<analysis_jobs, tasks, running, pc, results_dir, result_images, result,
                   call, returned>>

\* GET /latest-analysis
get_latest_analysis ==
    /\ IF analysis_store = <<>>
       THEN response' = Response("latest", {}, 404, <<"No analysis results available">>,
                                 <<>>)
       ELSE LET latest_id == analysis_store[Len(analysis_store)].key
            IN  response' = Response("latest", {latest_id}, 200, <<>>,
                                     <<[analysis_id |-> latest_id,
                                        data |-> Lookup(analysis_store, latest_id)]>>)
    /\ UNCHANGED <<analysis_jobs, tasks, running, pc, results_dir, result_images, issued,
                   result, call, returned, analysis_store>>

\* get_analysis_context answering {} for an id that is not in the store.
get_analysis_context_no_fallback(store, analysis_id) ==
    IF analysis_id # <<>> /\ analysis_id[1] \in Keys(store)
    THEN <<Lookup(store, analysis_id[1])>>
    ELSE <<>>

\* The dict returned, as a sequence: <<>> is the empty dict {}.
get_analysis_context(store, analysis_id) ==
    IF analysis_id # <<>> /\ analysis_id[1] \in Keys(store)
    THEN <<Lookup(store, analysis_id[1])>>
    ELSE IF store # <<>>
    THEN <<Lookup(store, store[Len(store)].key)>>
    ELSE <<>>

\* The chat endpoint asks for the context of the request's analysis id, or
\* for the latest one.
CallGetAnalysisContext(analysis_id) ==
    /\ call' = [function |-> "get_analysis_context", analysis_id |-> analysis_id]
    /\ returned' = <<get_analysis_context(analysis_store, analysis_id)>>
    /\ UNCHANGED <<analysis_jobs, tasks, running, pc, results_dir, result_images, issued,
                   response, result, analysis_store>>

ChatNext ==
    \/ chatbot_analyze_images
    \/ get_latest_analysis
    \/ \E analysis_id \in {<<>>} \cup Range(AnalysisIds) : CallGetAnalysisContext(analysis_id)

ChatSpec == Init /\ [][ChatNext]_vars

\* A job whose worker has started and not yet ended.
InProcessing(j) ==
    /\ j \in DOMAIN analysis_jobs
    /\ j \in DOMAIN tasks
    /\ analysis_jobs[j].status = "processing"

\* C12: the pipeline runs off the request-handling path: while a job is
\* between its first processing checkpoint and its terminal status, a status
\* poll for it can be served (and so shows it processing with its current
\* progress), and the worker of every other submitted job can start, so that
\* two jobs are processing at the same time.
C12_ProgressObservableWhileProcessing ==
    \A j \in ComparisonIds :
        InProcessing(j)
            => /\ ENABLED get_analysis_status(j)
               /\ \A k \in DOMAIN tasks \ {j} : ENABLED StartJob(k)

\* The registry entry of an id: the record, or nothing.
Entry(jobs, k) == IF k \in DOMAIN jobs THEN <<jobs[k]>> ELSE <<>>

\* C13: job records are isolated in the registry.  A step changes the entry
\* of job k only if it is a step for k itself (the request that creates k, a
\* step of k's worker, the deletion of k) or the restart of the process; and
\* a status poll for a job in the registry answers 200 with exactly the
\* record the registry holds for that job, changing no record.
C13_RegistryIsolation ==
    [][ /\ \A k \in ComparisonIds :
               Entry(analysis_jobs', k) # Entry(analysis_jobs, k)
                   => \/ Worker(k)
                      \/ delete_analysis_result(k)
                      \/ Restart
                      \/ /\ k = issued'
                         /\ k \notin DOMAIN analysis_jobs
                         /\ \E request \in Requests, async_mode \in BOOLEAN :
                                analyze_images(request, async_mode)
        /\ \A k \in DOMAIN analysis_jobs :
               get_analysis_status(k)
                   => /\ response'.code = 200
                      /\ response'.content = <<analysis_jobs[k]>>
                      /\ analysis_jobs' = analysis_jobs ]_vars

\* Two jobs with different records are in the registry, the worker of one of
\* them has written its progress, and the last response is the status of
\* the other.
C13_Witness ==
    \E j, k \in DOMAIN analysis_jobs :
        /\ j # k
        /\ analysis_jobs[j] # analysis_jobs[k]
        /\ analysis_jobs[j].status \in Terminal
        /\ response.op = "status" /\ response.id = {k} /\ response.code = 200
        /\ response.content = <<analysis_jobs[k]>>

\* An AnalysisResult without the id of its comparison, which no two requests share.
WithoutId(analysis) == [key \in DOMAIN analysis \ {"comparison_id"} |-> analysis[key]]

\* What the worker of a job binds to result for the images and level of a
\* request: one value for each state the random generator may be in.
AsynchronousResults(request) ==
    {WithoutId(compare_images(imread(request.before_image_id),
                              imread(request.after_image_id), 0, request.disaster_type,
                              request.analysis_level, seed)) : seed \in Seeds}

\* C14: a comparison requested with the request's async flag false creates
\* no job and no background task, and the AnalysisResult it returns is the
\* result the asynchronous path produces for the same images and level.
C14_SynchronousModeEquivalent ==
    [][\A request \in Requests, async_mode \in BOOLEAN :
           ( /\ ~request.async_mode
             /\ exists(request.before_image_id) /\ exists(request.after_image_id)
             /\ analyze_images(request, async_mode) )
               => /\ analysis_jobs' = analysis_jobs
                  /\ tasks' = tasks
                  /\ response'.code = 200
                         => /\ Len(response'.content) = 1
                            /\ "severity_score" \in DOMAIN response'.content[1]
                            /\ \A r \in AsynchronousResults(request) :
                                   WithoutId(response'.content[1]) = r]_vars

\* The illustrative fields drawn with random.choice.
Cosmetic == {"flow_direction", "flood_timeline", "vegetation_type"}

WithoutCosmetic(regions) ==
    [i \in DOMAIN regions |->
        [key \in DOMAIN regions[i] \ Cosmetic |-> regions[i][key]]]

\* What two runs are compared on: the change percentage, the severity score
\* and the five collections, confidences included.
Outcome(analysis) ==
    [changed_pixels_percentage |-> analysis.changed_pixels_percentage,
     severity_score |-> analysis.severity_score,
     damaged_areas |-> WithoutCosmetic(analysis.damaged_areas),
     building_damage |-> WithoutCosmetic(analysis.building_damage),
     road_damage |-> WithoutCosmetic(analysis.road_damage),
     flooded_areas |-> WithoutCosmetic(analysis.flooded_areas),
     vegetation_loss |-> WithoutCosmetic(analysis.vegetation_loss)]

\* C15: the pipeline is deterministic: the result a job's worker computes
\* has the change percentage, the regions (with their confidences, without
\* the cosmetic fields) and the severity score of every run of the pipeline
\* on the same two images at the same level.
C15_PipelineDeterministic ==
    [][\A j \in DOMAIN tasks :
           (running = {j} /\ result = <<>> /\ result' # <<>>)
               => \A seed \in Seeds :
                      Outcome(result'[1])
                          = Outcome(compare_images(imread(tasks[j].before_path),
                                                   imread(tasks[j].after_path), j,
                                                   tasks[j].disaster_type,
                                                   tasks[j].analysis_level, seed))]_vars

\* C16: deletion destroys the job: a DELETE for a job that is in the
\* registry, whatever its status, removes its record and its result, so
\* that afterwards the status query and the result query for the id both
\* answer not found.
C16_DeleteDestroysJob ==
    [][\A j \in DOMAIN analysis_jobs :
           delete_analysis_result(j)
               => /\ j \notin DOMAIN analysis_jobs'
                  /\ ~results_dir'[j].exists
                  /\ analysis_status(analysis_jobs', j).code = 404
                  /\ analysis_result(analysis_jobs', results_dir', j).code = 404]_vars

\* C17: the result query maps the state of the job to its answer: 404 for
\* an id that is not in the registry, 202 for a queued or processing job,
\* the AnalysisResult (200) only for a completed job, and never 202 for a
\* completed job.
C17_ResultQueryMapping ==
    [][\A j \in ComparisonIds :
           get_analysis_result(j)
               => /\ j \notin DOMAIN analysis_jobs => response'.code = 404
                  /\ Pending(j) => response'.code = 202
                  /\ response'.code = 200
                         => /\ j \in DOMAIN analysis_jobs
                            /\ analysis_jobs[j].status = "completed"
                            /\ Len(response'.content) = 1
                            /\ response'.content[1].comparison_id = j
                  /\ (j \in DOMAIN analysis_jobs /\ analysis_jobs[j].status = "completed")
                         => response'.code # 202]_vars

\* C18: in every reachable state each job record has one of the four
\* statuses and a progress from 0 to 100, and a completed job has progress
\* 100; a job enters the registry queued with progress 0.
C18_JobRecordsWellFormed ==
    /\ [](\A j \in DOMAIN analysis_jobs :
              /\ analysis_jobs[j].status \in {"queued", "processing", "completed", "failed"}
              /\ analysis_jobs[j].progress \in 0..100
              /\ analysis_jobs[j].status = "completed" => analysis_jobs[j].progress = 100
              /\ analysis_jobs[j].status = "queued" => analysis_jobs[j].progress = 0)
    /\ [][\A j \in DOMAIN analysis_jobs' \ DOMAIN analysis_jobs :
              /\ analysis_jobs'[j].status = "queued"
              /\ analysis_jobs'[j].progress = 0]_vars

\* A job has run to completed while another is still as it was created.
C18_Witness ==
    \E j, k \in DOMAIN analysis_jobs :
        /\ analysis_jobs[j].status = "completed"
        /\ analysis_jobs[j].progress = 100
        /\ analysis_jobs[k].status = "queued"
        /\ analysis_jobs[k].progress = 0

\* The regions of all five collections of a result.
AllRegions(analysis) ==
    Range(analysis.damaged_areas) \cup Range(analysis.building_damage)
        \cup Range(analysis.road_damage) \cup Range(analysis.flooded_areas)
        \cup Range(analysis.vegetation_loss)

\* [x1, y1, x2, y2] is a box inside an image of the given shape (rows, columns).
WithinImage(coordinates, shape) ==
    /\ 0 <= coordinates[1] /\ coordinates[1] < coordinates[3] /\ coordinates[3] <= shape[2]
    /\ 0 <= coordinates[2] /\ coordinates[2] < coordinates[4] /\ coordinates[4] <= shape[1]

\* Confidence in hundredths.
ConfidenceInUnitInterval(region) == 0 <= region.confidence /\ region.confidence <= 100

NumericPositiveArea(region) ==
    /\ "area" \in DOMAIN region
    /\ "float" \in DOMAIN region.area
    /\ region.area.float > 0

\* The shape of the before image of the running task.
RunningShape == Shape(imread(tasks[CHOOSE j \in running : TRUE].before_path))

SeverityCount(c, label) ==
    Cardinality({i \in DOMAIN c.damaged_areas : c.damaged_areas[i].severity = label})
        + Cardinality({i \in DOMAIN c.building_damage : c.building_damage[i].severity = label})
        + Cardinality({i \in DOMAIN c.road_damage : c.road_damage[i].severity = label})

RECURSIVE WeightedLogSum(_, _)
WeightedLogSum(c, labels) ==
    IF labels = {} THEN 0
    ELSE LET label == CHOOSE l \in labels : TRUE
             count == SeverityCount(c, label)
         IN  (IF count = 0 THEN 0 ELSE severity_weights[label] * log1p(count))
                 + WeightedLogSum(c, labels \ {label})

\* The sum of the four terms, in units of 10^-7.
ScoreSum(c) ==
    Min(c.changed_percentage \div 10, 10 * 10000000)
        + WeightedLogSum(c, DOMAIN severity_weights)
        + Min(Len(c.flooded_areas) * 2, 10) * 10000000
        + Min(Len(c.vegetation_loss) * 5, 50) * 1000000

\* C20: the severity score is in [0, 10] and equals clamp(sum / 10, 0, 10)
\* rounded to one decimal, sum being min(changedPct * 0.1, 10), plus
\* weight(label) * ln(1 + count(label)) over the severity labels counted
\* across the generic, building and road regions (nothing for a count of
\* 0), plus min(floodCount * 2, 10), plus min(vegetationCount * 0.5, 5).
\* The score is in tenths.
C20_SeverityScoreFormula ==
    returned # <<>>
        => /\ returned[1] \in 0..100
           /\ returned[1]
                  = round_half_even(Min(Max(ScoreSum(call), 0), 100 * 10000000), 10000000)

\* Scores have been computed for a call whose sum is beyond the clamp, and
\* the score is 10.
C20_Witness ==
    /\ returned # <<>>
    /\ ScoreSum(call) > 100 * 10000000
    /\ returned[1] = 100
    /\ SeverityCount(call, "Critical") = MaxSameSeverity
    /\ SeverityCount(call, "Medium") = 0
    /\ Len(call.flooded_areas) = 6

(***************************************************************************)
(* Properties of the pipeline's results.                                   *)
(***************************************************************************)
\* No change reported: nothing changed, no region in any collection, score 0.
NoChange(analysis) ==
    /\ analysis.changed_pixels_percentage = 0
    /\ analysis.damaged_areas = <<>>
    /\ analysis.building_damage = <<>>
    /\ analysis.road_damage = <<>>
    /\ analysis.flooded_areas = <<>>
    /\ analysis.vegetation_loss = <<>>
    /\ analysis.severity_score = 0

\* C21: for an identical before and after image the pipeline reports a
\* changed percentage of 0, no region in any of the five collections and
\* the severity score 0.0: so for the result a job's worker obtains, and so
\* at every level and for every state of the random generator.
C21_IdenticalImagesNoChange ==
    /\ \A j \in running :
           (result # <<>> /\ tasks[j].before_path = tasks[j].after_path)
               => NoChange(result[1])
    /\ \A image \in {"pre.jpg", "post.jpg"}, level \in Levels, seed \in Seeds :
           NoChange(compare_images(imread(image), imread(image), 1, None, level, seed))

\* A worker holds the result for a pair of identical images.
C21_Witness ==
    \E j \in running :
        /\ result # <<>>
        /\ tasks[j].before_path = tasks[j].after_path
        /\ result[1].comparison_id = j
        /\ pc = "mark_completed"

\* The pixels of the two images whose absolute difference exceeds t.
Exceeding(pre_gray, post_gray, t) ==
    {i \in DOMAIN pre_gray :
         pre_gray[i] - post_gray[i] > t \/ post_gray[i] - pre_gray[i] > t}

\* C22: for a fixed image pair the changed percentage does not increase
\* with the threshold: for thresholds t1 <= t2 the pixels whose absolute
\* difference exceeds t2 are at most as many as those exceeding t1, and the
\* percentage computed at t2 is at most the one computed at t1.
C22_ChangedPercentageMonotone ==
    returned # <<>>
        => \A t2 \in Thresholds :
               call.threshold <= t2
                   => /\ Cardinality(Exceeding(call.pre_gray, call.post_gray, t2))
                             <= Cardinality(Exceeding(call.pre_gray, call.post_gray,
                                                      call.threshold))
                      /\ returned[1] * ImagePixels
                             <= 10000 * Cardinality(Exceeding(call.pre_gray, call.post_gray,
                                                              call.threshold)) + ImagePixels
                      /\ change_percentage(call.pre_gray, call.post_gray, t2) <= returned[1]

\* A percentage has been computed that is strictly between 0 and 100 and
\* that a larger threshold makes strictly smaller.
C22_Witness ==
    /\ returned # <<>>
    /\ returned[1] > 0 /\ returned[1] < 10000
    /\ \E t2 \in Thresholds :
           /\ call.threshold < t2
           /\ change_percentage(call.pre_gray, call.post_gray, t2) < returned[1]
           /\ change_percentage(call.pre_gray, call.post_gray, t2) > 0

\* The checkpoint that announces the stage of each classifier.
CheckpointOf ==
    [damaged_areas |-> 50, building_damage |-> 60, road_damage |-> 70,
     flooded_areas |-> 80, vegetation_loss |-> 90]

\* C23: a checkpoint is reported only once the work of its stage is done: a
\* job that fails inside the stage of a classifier has, at that moment, not
\* reported the checkpoint of that stage nor of a later one, and while no
\* stage of the comparison has done its work no checkpoint from 30 on is
\* reported.
C23_CheckpointAfterStageWork ==
    /\ [][\A j \in Kept :
              ( /\ analysis_jobs[j].status = "processing"
                /\ analysis_jobs'[j].status = "failed"
                /\ analysis_jobs'[j].message[2] \in ClassifierNames )
                  => analysis_jobs[j].progress
                         < CheckpointOf[analysis_jobs'[j].message[2]]]_vars
    /\ [](\A j \in running :
              (result = <<>> /\ j \notin result_images /\ Pending(j))
                  => analysis_jobs[j].progress < 30)

DistinctIds(regions) ==
    \A m, n \in DOMAIN regions : m # n => regions[m].id # regions[n].id

\* C24: within one job the ids of the regions of one collection are
\* pairwise distinct, in each of the five collections of the result.
C24_RegionIdsDistinct ==
    result # <<>>
        => /\ DistinctIds(result[1].damaged_areas)
           /\ DistinctIds(result[1].building_damage)
           /\ DistinctIds(result[1].road_damage)
           /\ DistinctIds(result[1].flooded_areas)
           /\ DistinctIds(result[1].vegetation_loss)

\* The tiers of the building severity by mean-squared error.
SeverityOfMse(mse) ==
    IF mse > 3000 THEN "Collapsed"
    ELSE IF mse > 2000 THEN "Severely Damaged"
    ELSE IF mse > 1000 THEN "Partially Damaged"
    ELSE "Minor Damage"

\* C25: the severity of a building record follows the mean-squared error of
\* the grayscale crops, the mean over the pixels of (before - after)
\* squared: Collapsed above 3000, Severely Damaged above 2000, Partially
\* Damaged above 1000, Minor Damage otherwise; crops whose pixels all
\* differ by 60 are Collapsed.
C25_BuildingSeverityByMse ==
    \A j \in running :
        result # <<>>
            => \A n \in DOMAIN result[1].building_damage :
                   LET record == result[1].building_damage[n]
                       b == BuildingContours(imread(tasks[j].before_path))[record.id]
                       difference == b.gray_before - b.gray_after
                   IN  /\ record.severity = SeverityOfMse(difference * difference)
                       /\ difference \in {60, -60} => record.severity = "Collapsed"

\* The rules of the generic damage kind, in priority order.
KindRules(roi, declared) ==
    << <<declared = "flood" \/ roi.blue_increase > 30,            "Flooding">>,
       <<declared = "fire" \/ roi.red_increase > 30,              "Fire Damage">>,
       <<declared = "earthquake" /\ roi.texture_diff > 50,        "Building Collapse">>,
       <<roi.texture_diff > 50 /\ roi.correlation < 50,           "Structural Damage">>,
       <<roi.green_decrease > 20,                                 "Vegetation Loss">>,
       <<roi.correlation < 30,                                    "Severe Damage">>,
       <<roi.correlation < 70,                                    "Surface Damage">>,
       <<TRUE,                                                    "Minor Change">> >>

FirstMatch(rules) ==
    rules[CHOOSE n \in DOMAIN rules : rules[n][1] /\ \A m \in 1..(n - 1) : ~rules[m][1]][2]

WithoutType(regions) ==
    [n \in DOMAIN regions |-> [key \in DOMAIN regions[n] \ {"type"} |-> regions[n][key]]]

\* C26: the generic damage kind is the kind of the first rule that matches,
\* in the order Flooding, Fire Damage, Building Collapse, Structural Damage,
\* Vegetation Loss, Severe Damage, Surface Damage, Minor Change; and the
\* declared disaster type changes only the kind of the regions: the regions
\* emitted, and everything else in them, are the same for every declared
\* type.
C26_DamageKindCascade ==
    /\ (returned # <<>> /\ call.function = "classify_damage_type")
           => returned[1] = FirstMatch(KindRules(call.roi, call.disaster_type))
    /\ (returned # <<>> /\ call.function = "analyze_damaged_areas")
           => LET contours == Contours(call.before_img, call.after_img)
              IN  /\ \A declared \in DeclaredTypes :
                         WithoutType(analyze_damaged_areas(contours, call.before_img,
                                                           call.after_img, declared,
                                                           call.analysis_level))
                             = WithoutType(returned[1])
                  /\ \A n \in DOMAIN returned[1] :
                         returned[1][n].type
                             = FirstMatch(KindRules(Roi(call.before_img, call.after_img,
                                                        contours[returned[1][n].id]),
                                                    call.disaster_type))

\* The order has decided: a region measured with both the blue and the red
\* increase above 30, declared as fire, has been classified Flooding.
C26_Witness ==
    /\ returned = <<"Flooding">>
    /\ call.function = "classify_damage_type"
    /\ call.disaster_type = "fire"
    /\ call.roi.blue_increase > 30
    /\ call.roi.red_increase > 30
    /\ call.roi.texture_diff > 50

\* Two boxes [x1, y1, x2, y2] intersect.
BoxesIntersect(a, b) == a[1] < b[3] /\ a[3] > b[1] /\ a[2] < b[4] /\ a[4] > b[2]

\* The boxes of the generic-damage candidates of a pair: the changed
\* contours that pass the minimum-area cutoff.
CandidateBoxes(before_img, after_img) ==
    LET contours == Contours(before_img, after_img)
    IN  {Coordinates(contours[k].rect) : k \in {n \in DOMAIN contours : contours[n].area >= 100}}

\* C27: a building or road record is reported only where the box of the
\* building candidate or road contour intersects the box of a
\* generic-damage candidate, a changed contour of at least 100 px^2; a
\* contour discarded as noise causes no building or road record.
C27_DamageOnlyAtCandidates ==
    \A j \in running :
        result # <<>>
            => LET candidates == CandidateBoxes(imread(tasks[j].before_path),
                                                imread(tasks[j].after_path))
               IN  \A record \in Range(result[1].building_damage)
                                     \cup Range(result[1].road_damage) :
                       \E box \in candidates : BoxesIntersect(record.coordinates, box)

\* The intersection of two boxes [x1, y1, x2, y2], and whether it has a
\* positive area.
Intersection(a, b) == <<Max(a[1], b[1]), Max(a[2], b[2]), Min(a[3], b[3]), Min(a[4], b[4])>>

PositiveArea(box) == box[1] < box[3] /\ box[2] < box[4]

WithId(regions, id) == {n \in DOMAIN regions : regions[n].id = id}

\* C28: the building detector emits at most one record per building
\* candidate, however many damage contours the candidate overlaps; the road
\* detector emits, for a road contour, one record for every damage contour
\* whose box has a positive-area intersection with the road's box, and the
\* box of the record is that intersection.
C28_OnePerBuildingAllPerRoad ==
    \A j \in running :
        result # <<>> /\ result[1].analysis_level # "basic"
            => LET before_img == imread(tasks[j].before_path)
                   contours == Contours(before_img, imread(tasks[j].after_path))
                   buildings == BuildingContours(before_img)
                   roads == RoadContours(before_img)
                   Crossing(i) ==
                       {k \in DOMAIN contours :
                            PositiveArea(Intersection(Coordinates(roads[i].rect),
                                                      Coordinates(contours[k].rect)))}
               IN  /\ \A i \in DOMAIN buildings :
                          Cardinality(WithId(result[1].building_damage, i)) <= 1
                   /\ \A i \in DOMAIN roads :
                          roads[i].area >= 1000
                              => /\ Cardinality(WithId(result[1].road_damage, i))
                                        = Cardinality(Crossing(i))
                                 /\ {result[1].road_damage[n].coordinates :
                                         n \in WithId(result[1].road_damage, i)}
                                        = {Intersection(Coordinates(roads[i].rect),
                                                        Coordinates(contours[k].rect)) :
                                               k \in Crossing(i)}

\* A result in which a building candidate that overlaps two damage contours
\* has one record and a road that crosses two damage contours has two.
C28_Witness ==
    \E j \in running :
        /\ result # <<>>
        /\ LET before_img == imread(tasks[j].before_path)
               contours == Contours(before_img, imread(tasks[j].after_path))
               building == BuildingContours(before_img)[1]
           IN  /\ Cardinality({k \in DOMAIN contours :
                                   Overlaps(building.rect, contours[k].rect)}) = 2
               /\ Cardinality(WithId(result[1].building_damage, 1)) = 1
               /\ Cardinality(WithId(result[1].road_damage, 2)) = 2

(***************************************************************************)
(* Properties of the analysis store.                                       *)
(***************************************************************************)
\* The analyses stored so far are those with the ids 1 to issued, in that
\* order; the most recent ones, at most 20 of them.
MostRecent == [n \in 1..Min(issued, 20) |-> issued - Min(issued, 20) + n]

\* C29: the store holds at most 20 entries, and they are exactly the most
\* recently stored analyses, each with its own context and the one just
\* stored among them; the latest-analysis query answers with the analysis
\* stored last, or 404 while nothing is stored.
C29_StoreKeepsMostRecent ==
    /\ Len(analysis_store) <= 20
    /\ analysis_store
           = [n \in DOMAIN MostRecent |->
                  [key |-> MostRecent[n], value |-> get_chatbot_context(MostRecent[n])]]
    /\ response.op = "chatbot_analyze" /\ response.code = 200
           => response.id \subseteq Keys(analysis_store)
    /\ response.op = "latest"
           => IF issued = 0
              THEN response.code = 404
              ELSE /\ response.code = 200
                   /\ response.content
                          = <<[analysis_id |-> issued, data |-> get_chatbot_context(issued)]>>

\* More than 20 analyses have been stored, the oldest ones are gone, and
\* the latest-analysis query has answered with the last one.
C29_Witness ==
    /\ issued = MaxUploads
    /\ Len(analysis_store) = 20
    /\ 1 \notin Keys(analysis_store)
    /\ response.op = "latest"
    /\ response.id = {MaxUploads}

\* An id that was stored and has been deleted by the clean-up.
Evicted(analysis_id) ==
    analysis_id # <<>> /\ analysis_id[1] \in 1..issued /\ analysis_id[1] \notin Keys(analysis_store)

\* C30: get_analysis_context returns the stored context of an id that is in
\* the store; for an id that is absent, unknown or evicted it returns the
\* context of the analysis stored last; it returns the empty context only
\* when the store is empty; and it does not modify the store.
C30_ContextFallsBackToLatest ==
    [][\A analysis_id \in {<<>>} \cup Range(AnalysisIds) :
           CallGetAnalysisContext(analysis_id)
               => /\ IF analysis_id # <<>> /\ analysis_id[1] \in Keys(analysis_store)
                     THEN returned'[1] = <<get_chatbot_context(analysis_id[1])>>
                     ELSE IF issued > 0
                     THEN returned'[1] = <<get_chatbot_context(issued)>>
                     ELSE returned'[1] = <<>>
                  /\ returned'[1] = <<>> => analysis_store = <<>>
                  /\ UNCHANGED analysis_store]_vars

\* The context of an evicted id has been asked for and the context of the
\* analysis stored last has been returned.
C30_Witness ==
    /\ call.function = "get_analysis_context"
    /\ Evicted(call.analysis_id)
    /\ returned[1] = <<get_chatbot_context(issued)>>
    /\ issued > 20

====
